---- MODULE Spec2Model ----
(***************************************************************************)
(* GST reconciliation: the matching engine of reconciliation_v2.py.        *)
(*                                                                         *)
(* Amounts are integers in units of 0.01 (paise), so the classification    *)
(* threshold 0.01 of Invoice.__init__ is the integer 1.  A blank cell is   *)
(* the empty tuple and a filled numeric cell the one-element tuple <<v>>.  *)
(* Python's None is NoneNum in a numeric field and NoneStr in a text       *)
(* field; both are falsy, as None is.                                      *)
(***************************************************************************)
EXTENDS Integers, Sequences, FiniteSets, TLC

\* ---- bounds of the model ------------------------------------------------
MaxRows == 2
MaxAmt == 4
MaxTol == 1

\* ---- program constants --------------------------------------------------
Threshold == 1
NoneNum == 0
NoneStr == "None"

Gstins == {"", "G1", "G2"}
Amounts == (Threshold + 1)..MaxAmt
Tolerances == 0..MaxTol
Blank == << >>

VARIABLES
    ws1, ws2,                 \* the two worksheets: the data rows 2..max_row
    mapping1, mapping2,       \* get_header_map's result for each sheet
    sheetnames,               \* wb.sheetnames
    name1, name2, tolerance,  \* the two sheet names (None until given or resolved) and the tolerance
    entry,                    \* which driver runs: "main" or "process_reconciliation"
    list1, list2,             \* inv1, inv2: the Invoice objects handed to match_invoices
    match_counter,
    map2,                     \* Phase 1 index: (gstin, head) -> candidates
    map2_no_gstin,            \* Phase 2 sub-case A index: head -> candidates
    map2_with_gstin,          \* Phase 2 sub-case B index: head -> candidates
    sorted_candidates_map,    \* Phase 3 index: head -> candidates sorted by amount
    i,                        \* position of inv1 in the running for-loop over list1
    out1, out2,               \* the three columns write_results appends to each sheet
    error,                    \* the error the driver stopped with, NoneStr if none
    pc

vars == << ws1, ws2, mapping1, mapping2, sheetnames, name1, name2, tolerance, entry,
           list1, list2, match_counter, map2, map2_no_gstin, map2_with_gstin,
           sorted_candidates_map, i, out1, out2, error, pc >>

\* ---- helpers ------------------------------------------------------------
Abs(x) == IF x < 0 THEN -x ELSE x

\* Python truthiness of a numeric-or-None value and of a string-or-None value
Truthy(x) == x # NoneNum
TruthyStr(s) == s # NoneStr /\ s # ""

\* to_float on the cell values of the model: None -> 0.0, a number -> itself
to_float(val) == IF val = Blank THEN 0 ELSE val[1]

\* the gstin clean-up of Invoice.__init__ on already stripped, upper-case text
CleanGstin(g) == IF g \in {"NONE", "NAN"} THEN "" ELSE g

\* d.get(key, [])
Get(d, key) == IF key \in DOMAIN d THEN d[key] ELSE << >>

\* ---- Invoice ------------------------------------------------------------
HeadOf(igst, cgst, sgst) ==
    IF Abs(igst) > Threshold THEN "IGST"
    ELSE IF Abs(cgst) > Threshold \/ Abs(sgst) > Threshold THEN "CGST/SGST"
    ELSE "ZERO"

\* an amount that adds CGST and SGST up
AmountOfSum(igst, cgst, sgst) ==
    IF Abs(igst) > Threshold THEN igst
    ELSE IF Abs(cgst) > Threshold \/ Abs(sgst) > Threshold THEN cgst + sgst
    ELSE 0

AmountOf(igst, cgst, sgst) ==
    IF Abs(igst) > Threshold THEN igst
    ELSE IF Abs(cgst) > Threshold \/ Abs(sgst) > Threshold
         THEN (IF Abs(cgst) > Threshold THEN cgst ELSE sgst)
    ELSE 0

Invoice(row_idx, data, source_sheet) ==
    LET igst == to_float(data.igst)
        cgst == to_float(data.cgst)
        sgst == to_float(data.sgst)
    IN  [ row_idx |-> row_idx,
          gstin |-> CleanGstin(data.gstin),
          head |-> HeadOf(igst, cgst, sgst),
          amount |-> AmountOf(igst, cgst, sgst),
          source |-> source_sheet,
          match_id |-> NoneNum,
          match_type |-> NoneStr,
          matched_with_row |-> NoneNum ]

\* ---- read_invoices ------------------------------------------------------
\* the cells of row r as read through the mapping: an unmapped column reads None
RowData(row, mapping) ==
    [ gstin |-> IF mapping.gstin THEN row.gstin ELSE "",
      igst |-> IF mapping.igst THEN row.igst ELSE Blank,
      cgst |-> IF mapping.cgst THEN row.cgst ELSE Blank,
      sgst |-> IF mapping.sgst THEN row.sgst ELSE Blank ]

IsEmpty(data) ==
    data.gstin = "" /\ data.igst = Blank /\ data.cgst = Blank /\ data.sgst = Blank

RECURSIVE ReadFrom(_, _, _, _)
ReadFrom(ws, mapping, sheet_name, k) ==
    IF k > Len(ws) THEN << >>
    ELSE LET data == RowData(ws[k], mapping)
             inv == Invoice(k + 1, data, sheet_name)
             rest == ReadFrom(ws, mapping, sheet_name, k + 1)
         IN  IF ~IsEmpty(data) /\ inv.head # "ZERO" THEN << inv >> \o rest ELSE rest

read_invoices(ws, mapping, sheet_name) == ReadFrom(ws, mapping, sheet_name, 1)

\* ---- match_invoices: shared pieces ---------------------------------------
\* a claim test that never sees a claim
ClaimedNever(inv) == FALSE

\* "if inv.match_id": the record has been claimed by a match
Claimed(inv) == Truthy(inv.match_id)

\* positions 1..Len(l) of a list, in list order
Positions(l) == [ j \in 1..Len(l) |-> j ]

\* defaultdict(list) filled by one pass over list2: the records kept are
\* appended under their key in list order; candidates are references into
\* list2, held here as positions of list2, and key[j] is the key of list2[j]
GroupBy(kept, key) ==
    [ k \in { key[kept[n]] : n \in 1..Len(kept) } |->
         SelectSeq(kept, LAMBDA j : key[j] = k) ]

\* a tolerance test that accepts every difference
WithinAnyTolerance(diff, tol) == TRUE

\* "diff <= tolerance"
WithinTolerance(diff, tol) == diff <= tol

\* a comparison that lets an equal difference replace the best one
NotWorse(diff, best) == best = << >> \/ diff <= best[1]

\* "diff < best_diff", best_diff starting at float('inf'); best is << >> while
\* best_match is None and << best_diff, best_match >> afterwards
Better(diff, best) == best = << >> \/ diff < best[1]

\* the candidate loop of Phases 1 and 2 from position k on
RECURSIVE ScanCandidates(_, _, _, _, _, _)
ScanCandidates(inv1, candidates, l2, tol, k, best) ==
    IF k > Len(candidates) THEN best
    ELSE LET candidate == l2[candidates[k]]
             diff == Abs(inv1.amount - candidate.amount)
         IN  IF Claimed(candidate)
             THEN ScanCandidates(inv1, candidates, l2, tol, k + 1, best)
             ELSE IF WithinTolerance(diff, tol) /\ Better(diff, best)
             THEN ScanCandidates(inv1, candidates, l2, tol, k + 1, << diff, candidates[k] >>)
             ELSE ScanCandidates(inv1, candidates, l2, tol, k + 1, best)

BestCandidate(inv1, candidates, l2, tol) ==
    ScanCandidates(inv1, candidates, l2, tol, 1, << >>)

\* a link that records the record's own row as its partner's
LinkedOwnRow(inv, other, id, desc) ==
    [ inv EXCEPT !.match_id = id, !.match_type = desc,
                 !.matched_with_row = inv.row_idx ]

\* a link that leaves the match type unset
LinkedNoType(inv, other, id, desc) ==
    [ inv EXCEPT !.match_id = id, !.matched_with_row = other.row_idx ]

\* one side of "Link them": the fields set on inv when it is matched with other
Linked(inv, other, id, desc) ==
    [ inv EXCEPT !.match_id = id, !.match_type = desc,
                 !.matched_with_row = other.row_idx ]

\* a counter that is not advanced
SameCounter(c) == c

\* "match_counter += 1"
NextCounter(c) == c + 1

\* the tail of a loop body: link list1[i] with list2[best[2]] if a best match
\* was found, and move on to the next inv1
LinkOrSkip(best, desc) ==
    /\ IF best # << >>
       THEN /\ list1' = [ list1 EXCEPT ![i] = Linked(list1[i], list2[best[2]], match_counter, desc) ]
            /\ list2' = [ list2 EXCEPT ![best[2]] = Linked(list2[best[2]], list1[i], match_counter, desc) ]
            /\ match_counter' = NextCounter(match_counter)
       ELSE UNCHANGED << list1, list2, match_counter >>
    /\ i' = i + 1

Workbook == << ws1, ws2, mapping1, mapping2, sheetnames, tolerance, entry >>
Inputs == << Workbook, name1, name2 >>

\* ---- Phase 1: same GSTIN, same head --------------------------------------
\* a key under which the empty identifiers of the two lists are not equal
Phase1KeyPerSheet(inv) ==
    << IF inv.gstin = "" THEN "no GSTIN in " \o inv.source ELSE inv.gstin, inv.head >>

\* key = (inv.gstin, inv.head)
Phase1Key(inv) == << inv.gstin, inv.head >>

Phase1Index ==
    /\ pc = "match_invoices"
    /\ match_counter' = 1
    /\ map2' = GroupBy(SelectSeq(Positions(list2), LAMBDA j : ~Claimed(list2[j])),
                       [ j \in 1..Len(list2) |-> Phase1Key(list2[j]) ])
    /\ i' = 1
    /\ pc' = "phase1"
    /\ UNCHANGED << Inputs, list1, list2, map2_no_gstin, map2_with_gstin,
                    sorted_candidates_map, out1, out2, error >>

Phase1Step ==
    /\ pc = "phase1"
    /\ i <= Len(list1)
    /\ IF Claimed(list1[i])
       THEN /\ i' = i + 1
            /\ UNCHANGED << list1, list2, match_counter >>
       ELSE LinkOrSkip(BestCandidate(list1[i], Get(map2, Phase1Key(list1[i])), list2, tolerance),
                       "Perfect Match")
    /\ UNCHANGED << Inputs, map2, map2_no_gstin, map2_with_gstin,
                    sorted_candidates_map, out1, out2, error, pc >>

\* ---- Phase 2: one side has a GSTIN, the other none ------------------------
HeadKey(inv) == inv.head

\* a tag that names the other list
MissingGstinInOther(name) ==
    "Match (Missing GSTIN in " \o (IF name = name1 THEN name2 ELSE name1) \o ")"

\* f"Match (Missing GSTIN in {name})"
MissingGstinIn(name) == "Match (Missing GSTIN in " \o name \o ")"

Phase2AIndex ==
    /\ pc = "phase1"
    /\ i > Len(list1)
    /\ map2_no_gstin' =
           GroupBy(SelectSeq(Positions(list2),
                             LAMBDA j : ~Claimed(list2[j]) /\ ~TruthyStr(list2[j].gstin)),
                   [ j \in 1..Len(list2) |-> HeadKey(list2[j]) ])
    /\ i' = 1
    /\ pc' = "phase2a"
    /\ UNCHANGED << Inputs, list1, list2, match_counter, map2, map2_with_gstin,
                    sorted_candidates_map, out1, out2, error >>

Phase2AStep ==
    /\ pc = "phase2a"
    /\ i <= Len(list1)
    /\ IF Claimed(list1[i]) \/ ~TruthyStr(list1[i].gstin)
       THEN /\ i' = i + 1
            /\ UNCHANGED << list1, list2, match_counter >>
       ELSE LinkOrSkip(BestCandidate(list1[i], Get(map2_no_gstin, list1[i].head), list2, tolerance),
                       MissingGstinIn(name2))
    /\ UNCHANGED << Inputs, map2, map2_no_gstin, map2_with_gstin,
                    sorted_candidates_map, out1, out2, error, pc >>

Phase2BIndex ==
    /\ pc = "phase2a"
    /\ i > Len(list1)
    /\ map2_with_gstin' =
           GroupBy(SelectSeq(Positions(list2),
                             LAMBDA j : ~Claimed(list2[j]) /\ TruthyStr(list2[j].gstin)),
                   [ j \in 1..Len(list2) |-> HeadKey(list2[j]) ])
    /\ i' = 1
    /\ pc' = "phase2b"
    /\ UNCHANGED << Inputs, list1, list2, match_counter, map2, map2_no_gstin,
                    sorted_candidates_map, out1, out2, error >>

Phase2BStep ==
    /\ pc = "phase2b"
    /\ i <= Len(list1)
    /\ IF Claimed(list1[i]) \/ TruthyStr(list1[i].gstin)
       THEN /\ i' = i + 1
            /\ UNCHANGED << list1, list2, match_counter >>
       ELSE LinkOrSkip(BestCandidate(list1[i], Get(map2_with_gstin, list1[i].head), list2, tolerance),
                       MissingGstinIn(name1))
    /\ UNCHANGED << Inputs, map2, map2_no_gstin, map2_with_gstin,
                    sorted_candidates_map, out1, out2, error, pc >>

\* ---- Phase 3: same head, amount only --------------------------------------
\* list.sort(key=lambda x: x.amount): a stable sort, written as an insertion
\* sort that puts each item behind the items whose amount is not larger
InsertByAmount(sorted, j, l2) ==
    LET before == SelectSeq(sorted, LAMBDA m : l2[m].amount <= l2[j].amount)
        after == SelectSeq(sorted, LAMBDA m : l2[m].amount > l2[j].amount)
    IN  before \o << j >> \o after

RECURSIVE SortFrom(_, _, _, _)
SortFrom(items, l2, k, sorted) ==
    IF k > Len(items) THEN sorted
    ELSE SortFrom(items, l2, k + 1, InsertByAmount(sorted, items[k], l2))

\* candidates left in list order
Unsorted(items, l2) == items

\* valid_items.sort(key=lambda x: x.amount)
SortByAmount(items, l2) == SortFrom(items, l2, 1, << >>)

\* bisect.bisect_left(a, x, lo, hi) on a 0-based list a, a[m] being a[m + 1] here
RECURSIVE bisect_left(_, _, _, _)
bisect_left(a, x, lo, hi) ==
    IF lo < hi
    THEN LET mid == (lo + hi) \div 2
         IN  IF a[mid + 1] < x THEN bisect_left(a, x, mid + 1, hi)
             ELSE bisect_left(a, x, lo, mid)
    ELSE lo

\* "for i in range(idx, len(candidates))" from the 0-based position k on
RECURSIVE ScanRight(_, _, _, _, _, _)
ScanRight(inv1, candidates, l2, tol, k, best) ==
    IF k >= Len(candidates) THEN best
    ELSE LET candidate == l2[candidates[k + 1]]
             diff == Abs(candidate.amount - inv1.amount)
         IN  IF diff > tol THEN best
             ELSE IF Claimed(candidate)
             THEN ScanRight(inv1, candidates, l2, tol, k + 1, best)
             ELSE IF Better(diff, best)
             THEN ScanRight(inv1, candidates, l2, tol, k + 1, << diff, candidates[k + 1] >>)
             ELSE ScanRight(inv1, candidates, l2, tol, k + 1, best)

\* a search that leaves out the left side
NoScanLeft(inv1, candidates, l2, tol, k, best) == best

\* "for i in range(idx - 1, -1, -1)" from the 0-based position k on
RECURSIVE ScanLeft(_, _, _, _, _, _)
ScanLeft(inv1, candidates, l2, tol, k, best) ==
    IF k < 0 THEN best
    ELSE LET candidate == l2[candidates[k + 1]]
             diff == Abs(candidate.amount - inv1.amount)
         IN  IF diff > tol THEN best
             ELSE IF Claimed(candidate)
             THEN ScanLeft(inv1, candidates, l2, tol, k - 1, best)
             ELSE IF Better(diff, best)
             THEN ScanLeft(inv1, candidates, l2, tol, k - 1, << diff, candidates[k + 1] >>)
             ELSE ScanLeft(inv1, candidates, l2, tol, k - 1, best)

\* the Phase 3 search of one inv1 among the amount-sorted candidates
NearestCandidate(inv1, candidates, l2, tol) ==
    LET candidate_amounts == [ n \in 1..Len(candidates) |-> l2[candidates[n]].amount ]
        idx == bisect_left(candidate_amounts, inv1.amount, 0, Len(candidate_amounts))
        right == ScanRight(inv1, candidates, l2, tol, idx, << >>)
    IN  ScanLeft(inv1, candidates, l2, tol, idx - 1, right)

Phase3Desc(inv1, best_match) ==
    IF TruthyStr(inv1.gstin) /\ TruthyStr(best_match.gstin) /\ inv1.gstin # best_match.gstin
    THEN "Probable Match (GSTIN Mismatch)"
    ELSE "Match (No GSTINs)"

Phase3Index ==
    /\ pc = "phase2b"
    /\ i > Len(list1)
    /\ map2' = << >>
    /\ map2_no_gstin' = << >>
    /\ map2_with_gstin' = << >>
    /\ LET map2_any == GroupBy(SelectSeq(Positions(list2), LAMBDA j : ~Claimed(list2[j])),
                               [ j \in 1..Len(list2) |-> HeadKey(list2[j]) ])
       IN  sorted_candidates_map' =
               [ head \in DOMAIN map2_any |->
                   SortByAmount(SelectSeq(map2_any[head], LAMBDA j : ~Claimed(list2[j])), list2) ]
    /\ i' = 1
    /\ pc' = "phase3"
    /\ UNCHANGED << Inputs, list1, list2, match_counter, out1, out2, error >>

Phase3Step ==
    /\ pc = "phase3"
    /\ i <= Len(list1)
    /\ LET candidates == Get(sorted_candidates_map, list1[i].head)
       IN  IF Claimed(list1[i]) \/ candidates = << >>
           THEN /\ i' = i + 1
                /\ UNCHANGED << list1, list2, match_counter >>
           ELSE LET best == NearestCandidate(list1[i], candidates, list2, tolerance)
                IN  LinkOrSkip(best, IF best = << >> THEN NoneStr
                                     ELSE Phase3Desc(list1[i], list2[best[2]]))
    /\ UNCHANGED << Inputs, map2, map2_no_gstin, map2_with_gstin,
                    sorted_candidates_map, out1, out2, error, pc >>

\* ---- write_results --------------------------------------------------------
\* inv_map = {inv.row_idx: inv for inv in invoices}: the last invoice of a row wins
InvMapHas(invoices, r) == \E n \in 1..Len(invoices) : invoices[n].row_idx = r

InvMapGet(invoices, r) ==
    invoices[CHOOSE n \in 1..Len(invoices) :
                 /\ invoices[n].row_idx = r
                 /\ \A m \in (n + 1)..Len(invoices) : invoices[m].row_idx # r]

\* a status that names the record's own sheet as the one it is missing in
StatusOfOwnSheet(inv, other_name) ==
    IF TruthyStr(inv.match_type) THEN inv.match_type ELSE "Missing in " \o inv.source

\* the status of a row that entered matching
StatusOf(inv, other_name) ==
    IF TruthyStr(inv.match_type) THEN inv.match_type ELSE "Missing in " \o other_name

\* the three cells appended to the data rows 2..max_row of a sheet; a cell
\* that is not written stays None
write_results(ws, invoices, this_name, other_name) ==
    [ k \in 1..Len(ws) |->
        IF InvMapHas(invoices, k + 1)
        THEN LET inv == InvMapGet(invoices, k + 1)
             IN  [ status |-> StatusOf(inv, other_name),
                   match_id |-> inv.match_id,
                   matched_row |-> inv.matched_with_row ]
        ELSE [ status |-> "Ignored/Zero", match_id |-> NoneNum, matched_row |-> NoneNum ] ]

\* ---- the tail both drivers share: read, match, write ----------------------
\* "inv1 = read_invoices(ws1, map1, name1); inv2 = read_invoices(ws2, map2, name2)"
ReadInvoices ==
    /\ pc = "read_invoices"
    /\ list1' = read_invoices(ws1, mapping1, name1)
    /\ list2' = read_invoices(ws2, mapping2, name2)
    /\ pc' = "match_invoices"
    /\ UNCHANGED << Inputs, match_counter, map2, map2_no_gstin, map2_with_gstin,
                    sorted_candidates_map, i, out1, out2, error >>

\* match_invoices returns and the driver writes both sheets
WriteResults ==
    /\ pc = "phase3"
    /\ i > Len(list1)
    /\ out1' = write_results(ws1, list1, name1, name2)
    /\ out2' = write_results(ws2, list2, name2, name1)
    /\ pc' = "done"
    /\ UNCHANGED << Inputs, list1, list2, match_counter, map2, map2_no_gstin,
                    map2_with_gstin, sorted_candidates_map, i, error >>

\* ---- the inputs -----------------------------------------------------------
Row(g, igst, cgst, sgst) == [ gstin |-> g, igst |-> igst, cgst |-> cgst, sgst |-> sgst ]

\* the rows a sheet is made of: a blank row, a nil-rated row, the inter-state
\* invoices (IGST only) of every amount and one intra-state invoice (CGST and
\* SGST alike) per GSTIN, its amount within MaxTol of every inter-state one
IntraAmt == Threshold + 2

RowDomain ==
    { Row("", Blank, Blank, Blank) }
    \cup { Row("G1", <<0>>, <<0>>, <<0>>) }
    \cup { Row(g, <<a>>, <<0>>, <<0>>) : g \in Gstins, a \in Amounts }
    \cup { Row(g, <<0>>, <<IntraAmt>>, <<IntraAmt>>) : g \in Gstins }

Sheets == [ 1..MaxRows -> RowDomain ]

AllColumns == [ gstin |-> TRUE, igst |-> TRUE, cgst |-> TRUE, sgst |-> TRUE ]

Init ==
    /\ ws1 \in Sheets
    /\ ws2 \in Sheets
    /\ mapping1 = AllColumns
    /\ mapping2 = AllColumns
    /\ sheetnames = << "Books", "GSTR2B" >>
    /\ name1 = "Books"
    /\ name2 = "GSTR2B"
    /\ tolerance \in Tolerances
    /\ entry = "process_reconciliation"
    /\ list1 = << >>
    /\ list2 = << >>
    /\ match_counter = NoneNum
    /\ map2 = << >>
    /\ map2_no_gstin = << >>
    /\ map2_with_gstin = << >>
    /\ sorted_candidates_map = << >>
    /\ i = NoneNum
    /\ out1 = << >>
    /\ out2 = << >>
    /\ error = NoneStr
    /\ pc = "read_invoices"

Next ==
    \/ ReadInvoices
    \/ Phase1Index
    \/ Phase1Step
    \/ Phase2AIndex
    \/ Phase2AStep
    \/ Phase2BIndex
    \/ Phase2BStep
    \/ Phase3Index
    \/ Phase3Step
    \/ WriteResults

Spec == Init /\ [][Next]_vars

\* ---- the drivers: main and process_reconciliation --------------------------
Range(f) == { f[k] : k \in DOMAIN f }

\* classify_sheet on the sheet names of the model: "Books" contains 'book',
\* "GSTR2B" contains '2b', "GSTR3B" contains '3b', the others none of the keywords
classify_sheet(name) ==
    IF name = "Books" THEN "BOOKS"
    ELSE IF name = "GSTR2B" THEN "2B"
    ELSE IF name = "GSTR3B" THEN "3B"
    ELSE "UNKNOWN"

\* the auto-detection of both drivers: << name1, name2 >>, None where not found
AutoDetect(sheets) ==
    LET books_sheets == SelectSeq(sheets, LAMBDA n : classify_sheet(n) = "BOOKS")
        gstr2b_sheets == SelectSeq(sheets, LAMBDA n : classify_sheet(n) = "2B")
        gstr3b_sheets == SelectSeq(sheets, LAMBDA n : classify_sheet(n) = "3B")
    IN  IF books_sheets # << >> /\ gstr2b_sheets # << >> THEN << books_sheets[1], gstr2b_sheets[1] >>
        ELSE IF books_sheets # << >> /\ gstr3b_sheets # << >> THEN << books_sheets[1], gstr3b_sheets[1] >>
        ELSE IF gstr3b_sheets # << >> /\ gstr2b_sheets # << >> THEN << gstr3b_sheets[1], gstr2b_sheets[1] >>
        ELSE IF Len(sheets) = 2 THEN << sheets[1], sheets[2] >>
        ELSE << NoneStr, NoneStr >>

\* "if not name1 and not name2": the names are auto-detected, in both drivers
ResolveSheets ==
    /\ pc = "start"
    /\ IF ~TruthyStr(name1) /\ ~TruthyStr(name2)
       THEN /\ name1' = AutoDetect(sheetnames)[1]
            /\ name2' = AutoDetect(sheetnames)[2]
       ELSE UNCHANGED << name1, name2 >>
    /\ pc' = "resolved"
    /\ UNCHANGED << Workbook, list1, list2, match_counter, map2, map2_no_gstin,
                    map2_with_gstin, sorted_candidates_map, i, out1, out2, error >>

\* validate_map of process_reconciliation: the message of the ValueError it
\* raises, None if it returns
validate_map(m, sheet_name) ==
    IF ~m.gstin
    THEN "Sheet '" \o sheet_name \o "' is missing required columns: gstin"
    ELSE IF ~(m.igst \/ m.cgst \/ m.sgst)
    THEN "Sheet '" \o sheet_name \o "' has no tax columns (IGST, CGST, or SGST found)."
    ELSE NoneStr

\* the validations of process_reconciliation, in their order
ProcessError ==
    IF ~TruthyStr(name1) \/ ~TruthyStr(name2)
    THEN "Could not auto-detect sheets. and none provided."
    ELSE IF name1 = name2 THEN "Sheet 1 and Sheet 2 must be different."
    ELSE IF name1 \notin Range(sheetnames) \/ name2 \notin Range(sheetnames)
    THEN "One of the sheets not found."
    ELSE IF validate_map(mapping1, name1) # NoneStr THEN validate_map(mapping1, name1)
    ELSE validate_map(mapping2, name2)

ProcessValidate ==
    /\ pc = "resolved"
    /\ entry = "process_reconciliation"
    /\ error' = ProcessError
    /\ pc' = IF ProcessError = NoneStr THEN "read_invoices" ELSE "stopped"
    /\ UNCHANGED << Inputs, list1, list2, match_counter, map2, map2_no_gstin,
                    map2_with_gstin, sorted_candidates_map, i, out1, out2 >>

\* main from "if not name1 or not name2" to the header analysis: a missing
\* name is asked for, s1 and s2 being the sheets the user selects
MainError(s1, s2) ==
    IF s1 = s2 THEN "Error: Sheet 1 and Sheet 2 must be different."
    ELSE IF s1 \notin Range(sheetnames) \/ s2 \notin Range(sheetnames) THEN "KeyError"
    ELSE NoneStr

MainSelect ==
    /\ pc = "resolved"
    /\ entry = "main"
    /\ IF (~TruthyStr(name1) \/ ~TruthyStr(name2)) /\ Len(sheetnames) < 2
       THEN /\ error' = "Workbook must have at least 2 sheets."
            /\ pc' = "stopped"
            /\ UNCHANGED << name1, name2 >>
       ELSE \E s1 \in (IF TruthyStr(name1) THEN {name1} ELSE Range(sheetnames)),
               s2 \in (IF TruthyStr(name2) THEN {name2} ELSE Range(sheetnames)) :
               /\ name1' = s1
               /\ name2' = s2
               /\ error' = MainError(s1, s2)
               /\ pc' = IF MainError(s1, s2) = NoneStr THEN "read_invoices" ELSE "stopped"
    /\ UNCHANGED << Workbook, list1, list2, match_counter, map2, map2_no_gstin,
                    map2_with_gstin, sorted_candidates_map, i, out1, out2 >>

\* the workbooks, sheet arguments, header mappings and sheets of the drivers
Workbooks ==
    { << "Books", "GSTR2B" >>, << "Sheet1", "Data" >>, << "Books" >>,
      << "Books", "Sheet1", "Data" >> }

SheetArgs == { NoneStr, "Books", "GSTR2B" }

Mappings ==
    { m \in [ gstin : BOOLEAN, igst : BOOLEAN, cgst : BOOLEAN, sgst : BOOLEAN ] :
        m.cgst = m.sgst }

RunSheets == [ 1..MaxRows -> { Row(g, <<IntraAmt>>, <<0>>, <<0>>) : g \in {"", "G1"} } ]

InitRun ==
    /\ ws1 \in RunSheets
    /\ ws2 \in RunSheets
    /\ mapping1 \in Mappings
    /\ mapping2 \in Mappings
    /\ sheetnames \in Workbooks
    /\ name1 \in SheetArgs
    /\ name2 \in SheetArgs
    /\ tolerance = MaxTol
    /\ entry \in { "main", "process_reconciliation" }
    /\ list1 = << >>
    /\ list2 = << >>
    /\ match_counter = NoneNum
    /\ map2 = << >>
    /\ map2_no_gstin = << >>
    /\ map2_with_gstin = << >>
    /\ sorted_candidates_map = << >>
    /\ i = NoneNum
    /\ out1 = << >>
    /\ out2 = << >>
    /\ error = NoneStr
    /\ pc = "start"

NextRun ==
    \/ ResolveSheets
    \/ ProcessValidate
    \/ MainSelect
    \/ Next

SpecRun == InitRun /\ [][NextRun]_vars

\* ---- reading alone: every combination of the three tax cells ---------------
\* the values of a tax cell: blank, zero, the threshold and the first value
\* beyond it with either sign, and a larger value
NormCells ==
    { Blank } \cup { << v >> : v \in { -(Threshold + 1), -Threshold, 0, Threshold,
                                       Threshold + 1, MaxAmt } }

NormRows == { Row(g, igst, cgst, sgst) : g \in {"", "G1"}, igst \in NormCells,
                                         cgst \in NormCells, sgst \in NormCells }

PlainRows ==
    { Row("", Blank, Blank, Blank), Row("G1", <<0>>, <<0>>, <<0>>),
      Row("G1", <<MaxAmt>>, <<0>>, <<0>>) }

InitRead ==
    /\ ws1 \in { << r >> \o rest : r \in NormRows, rest \in [ 1..(MaxRows - 1) -> PlainRows ] }
    /\ ws2 \in [ 1..MaxRows -> PlainRows ]
    /\ mapping1 = AllColumns
    /\ mapping2 = AllColumns
    /\ sheetnames = << "Books", "GSTR2B" >>
    /\ name1 = "Books"
    /\ name2 = "GSTR2B"
    /\ tolerance \in Tolerances
    /\ entry = "process_reconciliation"
    /\ list1 = << >>
    /\ list2 = << >>
    /\ match_counter = NoneNum
    /\ map2 = << >>
    /\ map2_no_gstin = << >>
    /\ map2_with_gstin = << >>
    /\ sorted_candidates_map = << >>
    /\ i = NoneNum
    /\ out1 = << >>
    /\ out2 = << >>
    /\ error = NoneStr
    /\ pc = "read_invoices"

NextRead == ReadInvoices

SpecRead == InitRead /\ [][NextRead]_vars

\* ---- vocabulary of the properties ------------------------------------------
\* a record has a match field set
HasMatch(inv) ==
    inv.match_id # NoneNum \/ inv.match_type # NoneStr \/ inv.matched_with_row # NoneNum

\* the positions of list2 whose record has no match field set
Unclaimed2 == { j \in 1..Len(list2) : ~HasMatch(list2[j]) }

InMatching == pc \in {"phase1", "phase2a", "phase2b", "phase3"}

\* the running step is a loop body of some phase, for the record list1[i]
LoopStep == InMatching /\ i <= Len(list1) /\ i' = i + 1

\* the list-2 records that the running phase may pair with the list-1 record a
EligibleFor(a, b) ==
    /\ a.head = b.head
    /\ pc = "phase1" => a.gstin = b.gstin
    /\ pc = "phase2a" => a.gstin # "" /\ b.gstin = ""
    /\ pc = "phase2b" => a.gstin = "" /\ b.gstin # ""

Diff(a, b) == Abs(a.amount - b.amount)

\* the unclaimed list-2 positions a plain scan would accept for list1[i]
Acceptable ==
    { j \in Unclaimed2 : EligibleFor(list1[i], list2[j]) /\ Diff(list1[i], list2[j]) <= tolerance }

\* the list-1 positions that point at the list-2 position j
PartnersOf2(j) == { n \in 1..Len(list1) : list1[n].matched_with_row = list2[j].row_idx }
PartnersOf1(n) == { j \in 1..Len(list2) : list2[j].matched_with_row = list1[n].row_idx }

\* ---- C1 --------------------------------------------------------------------
\* C1: once a record has its match fields set, no later step changes the
\* record, and at all times a record is the partner of at most one record of
\* the other list.
C1_ClaimedOnce ==
    [][ /\ \A n \in 1..Len(list1) : HasMatch(list1[n]) => list1'[n] = list1[n]
        /\ \A j \in 1..Len(list2) : HasMatch(list2[j]) => list2'[j] = list2[j]
        /\ \A n \in 1..Len(list1') : Cardinality({ j \in 1..Len(list2') :
                 list2'[j].matched_with_row = list1'[n].row_idx }) <= 1
        /\ \A j \in 1..Len(list2') : Cardinality({ n \in 1..Len(list1') :
                 list1'[n].matched_with_row = list2'[j].row_idx }) <= 1 ]_vars

\* the second list-1 record of Phase 1 has been processed; the only record
\* it could have taken was claimed by the first, and it stays unmatched
C1_Witness ==
    /\ pc = "phase1" /\ i = 3
    /\ HasMatch(list1[1]) /\ ~HasMatch(list1[2])
    /\ \E j \in PartnersOf1(1) :
          /\ list2[j].gstin = list1[2].gstin /\ list2[j].head = list1[2].head
          /\ Diff(list1[2], list2[j]) <= tolerance

\* ---- C2 --------------------------------------------------------------------
\* C2: when match_invoices has completed, every matched record of either list
\* has a record of the other list that it points at, that points back at it
\* and that carries the same match_id.
C2_Symmetric ==
    pc = "done" =>
        /\ \A n \in 1..Len(list1) : HasMatch(list1[n]) =>
              \E j \in 1..Len(list2) :
                  /\ list1[n].matched_with_row = list2[j].row_idx
                  /\ list2[j].matched_with_row = list1[n].row_idx
                  /\ list1[n].match_id = list2[j].match_id
        /\ \A j \in 1..Len(list2) : HasMatch(list2[j]) =>
              \E n \in 1..Len(list1) :
                  /\ list2[j].matched_with_row = list1[n].row_idx
                  /\ list1[n].matched_with_row = list2[j].row_idx
                  /\ list2[j].match_id = list1[n].match_id

\* a completed run with two matches that cross the row order
C2_Witness ==
    /\ pc = "done" /\ Len(list1) = 2 /\ Len(list2) = 2
    /\ list1[1].matched_with_row = list2[2].row_idx
    /\ list1[2].matched_with_row = list2[1].row_idx

\* ---- C3 --------------------------------------------------------------------
\* C3: the amounts of two records matched with each other, by any phase,
\* differ by at most the tolerance of the call.
C3_WithinTolerance ==
    \A n \in 1..Len(list1) : \A j \in 1..Len(list2) :
        (HasMatch(list1[n]) /\ (list1[n].match_id = list2[j].match_id
                                \/ list1[n].matched_with_row = list2[j].row_idx
                                \/ list2[j].matched_with_row = list1[n].row_idx))
            => Diff(list1[n], list2[j]) <= tolerance

\* a Phase 1 match and a Phase 3 match, both with a difference that is
\* exactly the tolerance, which is not zero
C3_Witness ==
    /\ pc = "done" /\ tolerance > 0 /\ Len(list1) = 2
    /\ \E n, m \in 1..2 :
          /\ list1[n].match_type = "Perfect Match"
          /\ list1[m].match_type = "Probable Match (GSTIN Mismatch)"
          /\ \A j \in PartnersOf1(n) \cup PartnersOf1(m) :
                Abs(list2[j].amount - list1[IF j \in PartnersOf1(n) THEN n ELSE m].amount) = tolerance

\* ---- C5 --------------------------------------------------------------------
\* C5: every match_id in use is carried by exactly one record of list 1 and
\* exactly one record of list 2.
MatchIds ==
    { list1[n].match_id : n \in 1..Len(list1) } \cup { list2[j].match_id : j \in 1..Len(list2) }

C5_IdOnExactlyTwo ==
    \A id \in MatchIds \ {NoneNum} :
        /\ Cardinality({ n \in 1..Len(list1) : list1[n].match_id = id }) = 1
        /\ Cardinality({ j \in 1..Len(list2) : list2[j].match_id = id }) = 1

\* two matches have been made, by different phases
C5_Witness ==
    /\ Cardinality(MatchIds \ {NoneNum}) = 2
    /\ \E n, m \in 1..Len(list1) :
          /\ HasMatch(list1[n]) /\ HasMatch(list1[m])
          /\ list1[n].match_type # list1[m].match_type

\* ---- C8 --------------------------------------------------------------------
\* C8: in every state, between the steps of match_invoices and after it, the
\* three match fields of a record are all set or all unset.
AllOrNothing(inv) ==
    /\ (inv.match_id # NoneNum) <=> (inv.match_type # NoneStr)
    /\ (inv.match_id # NoneNum) <=> (inv.matched_with_row # NoneNum)

C8_AllOrNothing ==
    /\ \A n \in 1..Len(list1) : AllOrNothing(list1[n])
    /\ \A j \in 1..Len(list2) : AllOrNothing(list2[j])

\* in the middle of Phase 2, each list holds a record with all three fields
\* set and a record with none set
C8_Witness ==
    /\ pc = "phase2b" /\ i = 2
    /\ \E n, m \in 1..Len(list1) :
          /\ list1[n].match_id # NoneNum /\ list1[n].match_type # NoneStr
          /\ list1[n].matched_with_row # NoneNum /\ ~HasMatch(list1[m])
    /\ \E j, k \in 1..Len(list2) :
          /\ list2[j].match_id # NoneNum /\ list2[j].match_type # NoneStr
          /\ list2[j].matched_with_row # NoneNum /\ ~HasMatch(list2[k])

\* ---- C4 --------------------------------------------------------------------
\* the step pairs list1[i] with list2[j] although an unclaimed, eligible
\* record of an earlier row of list 2 has the same amount difference
LaterOfTied(j) ==
    /\ j \in Unclaimed2
    /\ HasMatch(list2'[j])
    /\ \E k \in Unclaimed2 :
          /\ list2[k].row_idx < list2[j].row_idx
          /\ EligibleFor(list1[i], list2[k])
          /\ Diff(list1[i], list2[k]) = Diff(list1[i], list2[j])

\* C4 as stated: in every phase, Phase 3 included, of two tied candidates the
\* one of the earlier row of list 2 is matched.
C4_TieBreakEveryPhase ==
    [][ LoopStep => \A j \in 1..Len(list2) : ~LaterOfTied(j) ]_vars

\* C4 (amended): in Phase 1 and in both sub-passes of Phase 2, of two tied
\* candidates the one of the earlier row of list 2 is matched.
C4_TieBreakPhases12 ==
    [][ (LoopStep /\ pc # "phase3") => \A j \in 1..Len(list2) : ~LaterOfTied(j) ]_vars

\* sub-pass A has just paired a list-1 record with the first of two list-2
\* records that are both eligible and equally far from it
C4_Witness ==
    /\ pc = "phase2a" /\ i = 2 /\ Len(list2) = 2
    /\ list1[1].matched_with_row = list2[1].row_idx
    /\ list1[1].gstin # "" /\ list2[1].gstin = "" /\ list2[2].gstin = ""
    /\ ~HasMatch(list2[2])
    /\ list2[2].head = list1[1].head
    /\ Diff(list1[1], list2[2]) = Diff(list1[1], list2[1])
    /\ Diff(list1[1], list2[1]) > 0

\* ---- C10 -------------------------------------------------------------------
\* C10: in every phase, a list-1 record that is still unclaimed when its loop
\* body runs ends up unmatched exactly if no unclaimed list-2 record is
\* eligible for the phase and within tolerance, and is otherwise paired with
\* such a record of the least amount difference; for Phase 3 this is the
\* outcome of a plain scan of the unclaimed records of the same head.
C10_NearestAcceptable ==
    [][ (LoopStep /\ ~HasMatch(list1[i])) =>
            IF Acceptable = {}
            THEN list1'[i] = list1[i] /\ list2' = list2
            ELSE \E j \in Acceptable :
                    /\ list1'[i].matched_with_row = list2[j].row_idx
                    /\ list2'[j].matched_with_row = list1[i].row_idx
                    /\ \A k \in Acceptable : Diff(list1[i], list2[j]) <= Diff(list1[i], list2[k]) ]_vars

\* Phase 3 has processed two list-1 records of the same amount: the first
\* took the list-2 record of that amount, the second met it claimed at the
\* insertion point and found a smaller amount on the left side
C10_Witness ==
    /\ pc = "phase3" /\ i = 3
    /\ list1[1].match_type = "Probable Match (GSTIN Mismatch)"
    /\ list1[2].match_type = "Probable Match (GSTIN Mismatch)"
    /\ list1[1].amount = list1[2].amount
    /\ \E j \in PartnersOf1(1) : list2[j].amount = list1[2].amount
    /\ \E j \in PartnersOf1(2) : list2[j].amount < list1[2].amount

\* ---- C6 --------------------------------------------------------------------
\* a data row none of whose three tax cells exceeds the threshold
RowIsZero(row) ==
    \A c \in { row.igst, row.cgst, row.sgst } : c = Blank \/ Abs(c[1]) <= Threshold

Cells(status, id, row) == [ status |-> status, match_id |-> id, matched_row |-> row ]

\* the cells that account for the data row of number r, given the records of
\* its sheet after matching
Accounted(row, r, invoices, cells, other_name) ==
    LET recs == { n \in 1..Len(invoices) : invoices[n].row_idx = r }
    IN  IF RowIsZero(row)
        THEN recs = {} /\ cells = Cells("Ignored/Zero", NoneNum, NoneNum)
        ELSE /\ Cardinality(recs) = 1
             /\ \A n \in recs :
                   IF HasMatch(invoices[n])
                   THEN /\ invoices[n].match_id # NoneNum
                        /\ invoices[n].matched_with_row # NoneNum
                        /\ invoices[n].match_type \notin
                              { NoneStr, "", "Ignored/Zero", "Missing in " \o other_name }
                        /\ cells = Cells(invoices[n].match_type, invoices[n].match_id,
                                         invoices[n].matched_with_row)
                   ELSE cells = Cells("Missing in " \o other_name, NoneNum, NoneNum)

\* C6: after write_results has run for both sheets, every data row of each
\* sheet has exactly one status: the match type with the match id and the
\* matched row if its record was matched, "Missing in <other sheet>" without
\* a match id if its record stayed unmatched, "Ignored/Zero" without a match
\* id if the row was classified ZERO and never entered matching.
C6_EveryRowAccounted ==
    pc = "done" =>
        /\ DOMAIN out1 = 1..Len(ws1)
        /\ DOMAIN out2 = 1..Len(ws2)
        /\ \A k \in 1..Len(ws1) : Accounted(ws1[k], k + 1, list1, out1[k], name2)
        /\ \A k \in 1..Len(ws2) : Accounted(ws2[k], k + 1, list2, out2[k], name1)

\* a completed run whose sheets show all three kinds of status: sheet 1 has
\* an ignored row and a matched one, sheet 2 a matched row and a missing one
C6_Witness ==
    /\ pc = "done"
    /\ \E k, m \in 1..Len(ws1) :
          /\ out1[k] = Cells("Ignored/Zero", NoneNum, NoneNum)
          /\ out1[m].match_id # NoneNum /\ out1[m].matched_row # NoneNum
    /\ \E k, m \in 1..Len(ws2) :
          /\ out2[k].match_id # NoneNum /\ out2[k].matched_row # NoneNum
          /\ out2[m] = Cells("Missing in " \o name1, NoneNum, NoneNum)

\* ---- C7 --------------------------------------------------------------------
\* a header mapping with an identifier column and at least one tax column
Resolvable(m) == m.gstin /\ (m.igst \/ m.cgst \/ m.sgst)

ValidConfiguration ==
    /\ Resolvable(mapping1) /\ Resolvable(mapping2)
    /\ name1 \notin { NoneStr, "" } /\ name2 \notin { NoneStr, "" }
    /\ name1 # name2

\* C7: on both drivers, while a selected sheet has no identifier column or
\* none of the tax columns, or the sheet names are identical or missing, the
\* run is not inside or past match_invoices, no record has a match field set
\* and no annotated output has been written.
C7_ConfigurationCheckedFirst ==
    ~ValidConfiguration =>
        /\ ~InMatching /\ pc # "done"
        /\ \A n \in 1..Len(list1) : ~HasMatch(list1[n])
        /\ \A j \in 1..Len(list2) : ~HasMatch(list2[j])
        /\ out1 = << >> /\ out2 = << >>

\* ---- C11 -------------------------------------------------------------------
\* the step pairs list1[i] with exactly one list-2 record, both unclaimed
\* before it and of the same head, and puts the tag on both
PairsWithTag(tag, gstin1_empty, gstin2_empty) ==
    /\ ~HasMatch(list1[i])
    /\ (list1[i].gstin = "") <=> gstin1_empty
    /\ list1'[i].match_type = tag
    /\ \A n \in 1..Len(list1) : n # i => list1'[n] = list1[n]
    /\ \E j \in 1..Len(list2) :
          /\ ~HasMatch(list2[j])
          /\ (list2[j].gstin = "") <=> gstin2_empty
          /\ list2[j].head = list1[i].head
          /\ list2'[j].match_type = tag
          /\ list2'[j].matched_with_row = list1[i].row_idx
          /\ list1'[i].matched_with_row = list2[j].row_idx
          /\ \A k \in 1..Len(list2) : k # j => list2'[k] = list2[k]

\* C11: every match made by Phase 2 pairs two records of the same head of
\* which exactly one has an empty identifier: sub-pass A pairs a list-1 record
\* that has an identifier with a list-2 record that has none and tags both
\* "Match (Missing GSTIN in <name2>)", sub-pass B pairs a list-1 record that
\* has none with a list-2 record that has one and tags both "Match (Missing
\* GSTIN in <name1>)"; neither sub-pass touches a record claimed before.
C11_Phase2Pairs ==
    [][ /\ (pc = "phase2a" /\ << list1, list2 >>' # << list1, list2 >>) =>
              PairsWithTag("Match (Missing GSTIN in " \o name2 \o ")", FALSE, TRUE)
        /\ (pc = "phase2b" /\ << list1, list2 >>' # << list1, list2 >>) =>
              PairsWithTag("Match (Missing GSTIN in " \o name1 \o ")", TRUE, FALSE) ]_vars

\* sub-pass B has just made a match, the second of the run, while the
\* records matched by sub-pass A are claimed
C11_Witness ==
    /\ pc = "phase2b" /\ i > 1 /\ match_counter = 3
    /\ list1[i - 1].match_type = "Match (Missing GSTIN in " \o name1 \o ")"
    /\ list1[i - 1].match_id = 2 /\ list1[i - 1].gstin = ""
    /\ \E n \in 1..Len(list1) : \E j \in PartnersOf1(n) :
          /\ list1[n].match_type = "Match (Missing GSTIN in " \o name2 \o ")"
          /\ list2[j].match_type = list1[n].match_type
          /\ list1[n].gstin # "" /\ list2[j].gstin = ""
          /\ list1[n].head = list1[i - 1].head

\* ---- C12 -------------------------------------------------------------------
\* a tax value is beyond the threshold on either side of zero
Significant(v) == v > Threshold \/ v < -Threshold

\* the list read from a sheet holds, for every row, what normalization says
NormalizedAs(ws, invoices) ==
    /\ \A k \in 1..Len(ws) :
          LET igst == to_float(ws[k].igst)
              cgst == to_float(ws[k].cgst)
              sgst == to_float(ws[k].sgst)
              recs == { n \in 1..Len(invoices) : invoices[n].row_idx = k + 1 }
          IN  /\ Cardinality(recs) <= 1
              /\ Significant(igst) =>
                    \E n \in recs : invoices[n].head = "IGST" /\ invoices[n].amount = igst
              /\ (~Significant(igst) /\ Significant(cgst)) =>
                    \E n \in recs : invoices[n].head = "CGST/SGST" /\ invoices[n].amount = cgst
              /\ (~Significant(igst) /\ ~Significant(cgst) /\ Significant(sgst)) =>
                    \E n \in recs : invoices[n].head = "CGST/SGST" /\ invoices[n].amount = sgst
              /\ (~Significant(igst) /\ ~Significant(cgst) /\ ~Significant(sgst)) => recs = {}
    /\ \A n \in 1..Len(invoices) :
          /\ invoices[n].row_idx - 1 \in 1..Len(ws)
          /\ Significant(invoices[n].amount)
          /\ invoices[n].head \in { "IGST", "CGST/SGST" }

\* C12: for every combination of the parsed igst, cgst and sgst of a row, the
\* lists handed to match_invoices hold a record of head IGST and amount igst
\* if |igst| > 0.01, else one of head CGST/SGST and amount cgst if
\* |cgst| > 0.01, else one of head CGST/SGST and amount sgst if |sgst| > 0.01,
\* and else no record of the row; every record handed over has |amount| > 0.01.
C12_Normalized ==
    pc = "match_invoices" => NormalizedAs(ws1, list1) /\ NormalizedAs(ws2, list2)

\* a row whose IGST and CGST are at the threshold and whose SGST is beyond it
\* has been read as a CGST/SGST record of the SGST amount, and a nil-rated
\* row of the other sheet has been dropped
C12_Witness ==
    /\ pc = "match_invoices"
    /\ ws1[1].igst = << Threshold >> /\ ws1[1].cgst = << -Threshold >>
    /\ ws1[1].sgst = << -(Threshold + 1) >>
    /\ Len(list1) > 0 /\ list1[1].row_idx = 2
    /\ list1[1].head = "CGST/SGST" /\ list1[1].amount = -(Threshold + 1)
    /\ \E k \in 1..Len(ws2) :
          /\ ws2[k].igst = <<0>> /\ ws2[k].cgst = <<0>> /\ ws2[k].sgst = <<0>>
          /\ \A n \in 1..Len(list2) : list2[n].row_idx # k + 1

\* ---- C13 -------------------------------------------------------------------
\* no record of either list carries the tag of an amount-only match without
\* differing identifiers
NoMatchWithoutGstins(l1, l2) ==
    /\ \A n \in 1..Len(l1) : l1[n].match_type # "Match (No GSTINs)"
    /\ \A j \in 1..Len(l2) : l2[j].match_type # "Match (No GSTINs)"

MissingRecords(ws, invoices, out, other_name) ==
    { n \in 1..Len(invoices) :
        /\ invoices[n].row_idx - 1 \in 1..Len(ws)
        /\ out[invoices[n].row_idx - 1].status = "Missing in " \o other_name }

\* C14: when match_invoices has completed, no unmatched record of list 1 and
\* unmatched record of list 2 have the same head and amounts within the
\* tolerance; a row reported as "Missing in <other sheet>" has no such
\* counterpart among the rows of the other sheet reported as missing.
C14_NoMatchLeftOver ==
    pc = "done" =>
        /\ \A n \in 1..Len(list1) : \A j \in 1..Len(list2) :
              (~HasMatch(list1[n]) /\ ~HasMatch(list2[j]) /\ list1[n].head = list2[j].head)
                  => Diff(list1[n], list2[j]) > tolerance
        /\ \A n \in MissingRecords(ws1, list1, out1, name2) :
              \A j \in MissingRecords(ws2, list2, out2, name1) :
                  list1[n].head = list2[j].head => Diff(list1[n], list2[j]) > tolerance
        /\ MissingRecords(ws1, list1, out1, name2) = { n \in 1..Len(list1) : ~HasMatch(list1[n]) }
        /\ MissingRecords(ws2, list2, out2, name1) = { j \in 1..Len(list2) : ~HasMatch(list2[j]) }

\* a completed run with a Phase 3 match and, reported as missing on each
\* sheet, a record of the same head as the other, further off than the
\* tolerance, the tolerance not being zero
C14_Witness ==
    /\ pc = "done" /\ tolerance > 0
    /\ \E n \in 1..Len(list1) : list1[n].match_type = "Probable Match (GSTIN Mismatch)"
    /\ \E n \in MissingRecords(ws1, list1, out1, name2) :
          \E j \in MissingRecords(ws2, list2, out2, name1) :
              /\ list1[n].head = list2[j].head
              /\ list1[n].gstin # "" /\ list2[j].gstin # ""
              /\ Diff(list1[n], list2[j]) = tolerance + 1

====
